---------------------------- MODULE Spec2Model ----------------------------
(***************************************************************************)
(* State-tracker preprocessors of DeepPavlov                               *)
(* (deeppavlov/models/state_tracker/preprocessors.py): tag2slot,           *)
(* Delexicalizor, SlotsTokensMatrixBuilder, SlotsValuesMatrixBuilder and   *)
(* SlotsValuesMatrix2Dict, each __call__ unrolled into the steps of its    *)
(* loops.  Cursors and indices are 0-based as in the source; a TLA+        *)
(* sequence s is read at s[k + 1] for the source's s[k].                   *)
(***************************************************************************)
EXTENDS Integers, Sequences, FiniteSets, TLC

VARIABLES
    op,               \* the component whose __call__ is running
    slot_vocab,       \* self.slot_vocab: slot names, position = dense index
    max_num_values,   \* self.max_num_values (SlotsValuesMatrixBuilder)
    exclude_values,   \* self.exclude_values (SlotsValuesMatrix2Dict)
    utterances,       \* argument: batch of token sequences
    tags,             \* argument: batch of tag sequences
    candidates,       \* argument: None or a batch (list) of candidate sets
    slots,            \* argument of SlotsValuesMatrixBuilder
    slots_values,     \* argument of SlotsValuesMatrix2Dict
    pc,               \* position in the running __call__
    cands,            \* local `candidates` after candidates = candidates[0]
    u,                \* 0-based position of the batch loop
    i,                \* 0-based cursor of the inner loop
    utt_norm,         \* Delexicalizor: tokens of the utterance built so far
    norm_utterances,  \* Delexicalizor: accumulated result
    mat,              \* matrix of the utterance being built
    utt_matrices,     \* accumulated matrices
    slot_dict,        \* SlotsValuesMatrix2Dict: (slot, value) pairs so far
    result,           \* the returned value, once returned
    error,            \* the exception that ended the call, or "none"
    spans,            \* history: spans (slot, start, length) of the utterance under scan
    iters             \* history: iterations of the scan loop on that utterance

vars == <<op, slot_vocab, max_num_values, exclude_values, utterances, tags,
          candidates, slots, slots_values, pc, cands, u, i, utt_norm,
          norm_utterances, mat, utt_matrices, slot_dict, result, error,
          spans, iters>>

config == <<op, slot_vocab, max_num_values, exclude_values, utterances, tags,
            candidates, slots, slots_values>>

-----------------------------------------------------------------------------
(* Bounds of the input space *)

\* tokens (and tags) of a whole batch
MaxTokens == 3
\* the batch sizes tried: no utterance, one, two
BatchSizes == {0, 1, 2}

-----------------------------------------------------------------------------
(* Python values *)

\* None, as an argument or as an element of the candidates batch
PyNone == [tag |-> "None"]
\* a list argument
PyList(xs) == [tag |-> "list", items |-> xs]
\* a dict; d is a function from its keys
PyDict(d) == [tag |-> "dict", dict |-> d]

IsNone(x) == x.tag = "None"

\* outcome of a function call: a value, None, or an exception
Return(v) == [raised |-> FALSE, none |-> FALSE, val |-> v]
ReturnNone == [raised |-> FALSE, none |-> TRUE]
Raise(e) == [raised |-> TRUE, err |-> e]

NoResult == [returned |-> FALSE]
Returned(v) == [returned |-> TRUE, val |-> v]

Min(a, b) == IF a < b THEN a ELSE b

\* str.startswith
StartsWith(s, p) == Len(s) >= Len(p) /\ SubSeq(s, 1, Len(p)) = p

\* list.index(x): 0-based position of the first occurrence
ListIndex(xs, x) == (CHOOSE k \in 1..Len(xs) :
                        xs[k] = x /\ \A j \in 1..(k - 1) : xs[j] # x) - 1

\* x in list
InList(xs, x) == \E k \in 1..Len(xs) : xs[k] = x

\* xs[a:b], a slice with Python's truncation at the end of the list
Slice(xs, a, b) == SubSeq(xs, a + 1, Min(b, Len(xs)))

\* ' '.join(ws)
RECURSIVE JoinSpace(_)
JoinSpace(ws) ==
    IF Len(ws) = 0 THEN ""
    ELSE IF Len(ws) = 1 THEN ws[1]
    ELSE ws[1] \o " " \o JoinSpace(Tail(ws))

-----------------------------------------------------------------------------
(* tag2slot *)

tag2slot_noCheck(tag) ==
    IF tag # "O" THEN Return(SubSeq(tag, 3, Len(tag))) ELSE ReturnNone

tag2slot(tag) ==
    IF tag # "O"
    THEN IF (~StartsWith(tag, "I-")) /\ (~StartsWith(tag, "B-"))
         THEN Raise("RuntimeError: Wrong tag format")
         ELSE Return(SubSeq(tag, 3, Len(tag)))
    ELSE ReturnNone

-----------------------------------------------------------------------------
(* Delexicalizor.__call__ *)

\* the pairs zip(a, b) yields
ZipLen(a, b) == Min(Len(a), Len(b))

DelexCall ==
    /\ pc = "start" /\ op = "Delexicalizor"
    /\ norm_utterances' = <<>>
    /\ u' = 0
    /\ pc' = "delex_batch"
    /\ UNCHANGED <<config, cands, i, utt_norm, mat, utt_matrices, slot_dict,
                   result, error, spans, iters>>

\* for utt_words, utt_tags in zip(utterances, tags): next utterance
DelexUtt ==
    /\ pc = "delex_batch"
    /\ u < ZipLen(utterances, tags)
    /\ utt_norm' = <<>>
    /\ i' = 0
    /\ pc' = "delex_tokens"
    /\ UNCHANGED <<config, cands, u, norm_utterances, mat, utt_matrices,
                   slot_dict, result, error, spans, iters>>

\* one element of the list comprehension
DelexElement_keepPrefix(w, t) ==
    IF t = "O" THEN Return(w)
    ELSE LET r == tag2slot(t) IN
         IF r.raised THEN r ELSE Return("#" \o t)

DelexElement(w, t) ==
    IF t = "O" THEN Return(w)
    ELSE LET r == tag2slot(t) IN
         IF r.raised THEN r ELSE Return("#" \o r.val)

DelexToken ==
    /\ pc = "delex_tokens"
    /\ i < ZipLen(utterances[u + 1], tags[u + 1])
    /\ LET r == DelexElement(utterances[u + 1][i + 1], tags[u + 1][i + 1]) IN
       IF r.raised
       THEN /\ error' = r.err
            /\ pc' = "error"
            /\ UNCHANGED <<utt_norm, i>>
       ELSE /\ utt_norm' = Append(utt_norm, r.val)
            /\ i' = i + 1
            /\ UNCHANGED <<error, pc>>
    /\ UNCHANGED <<config, cands, u, norm_utterances, mat, utt_matrices,
                   slot_dict, result, spans, iters>>

\* norm_utterances.append(utt_norm)
DelexAppend ==
    /\ pc = "delex_tokens"
    /\ i >= ZipLen(utterances[u + 1], tags[u + 1])
    /\ norm_utterances' = Append(norm_utterances, utt_norm)
    /\ u' = u + 1
    /\ pc' = "delex_batch"
    /\ UNCHANGED <<config, cands, i, utt_norm, mat, utt_matrices, slot_dict,
                   result, error, spans, iters>>

DelexReturn ==
    /\ pc = "delex_batch"
    /\ u >= ZipLen(utterances, tags)
    /\ result' = Returned(norm_utterances)
    /\ pc' = "done"
    /\ UNCHANGED <<config, cands, u, i, utt_norm, norm_utterances, mat,
                   utt_matrices, slot_dict, error, spans, iters>>

-----------------------------------------------------------------------------
(* SlotsTokensMatrixBuilder *)

\* np.zeros((n, m)): n rows of m cells
Zeros(n, m) == [r \in 1..n |-> [c \in 1..m |-> 0]]

\* mat[row, a:b] = v
SetCells(m, row, a, b, v) ==
    [m EXCEPT ![row + 1] =
        [c \in 1..Len(m[row + 1]) |->
            IF a <= c - 1 /\ c - 1 < b THEN v ELSE m[row + 1][c]]]

\* self.slot_vocab([[slot]])[0][0] behind the membership test
_slot2idx(slot) ==
    IF ~InList(slot_vocab, slot)
    THEN Raise("RuntimeError: slot doesn't match any slot from slot_vocab")
    ELSE Return(ListIndex(slot_vocab, slot))

\* the length check and candidates = candidates[0]; len(None) is a TypeError
TokCandidates(c) ==
    IF IsNone(c) THEN Raise("TypeError: object of type 'NoneType' has no len()")
    ELSE IF Len(c.items) # 1 THEN Raise("NotImplementedError")
    ELSE Return(c.items[1])

TokCall ==
    /\ pc = "start" /\ op = "SlotsTokensMatrixBuilder"
    /\ LET r == TokCandidates(candidates) IN
       IF r.raised
       THEN /\ error' = r.err
            /\ pc' = "error"
            /\ UNCHANGED <<cands, utt_matrices, u>>
       ELSE /\ cands' = r.val
            /\ utt_matrices' = <<>>
            /\ u' = 0
            /\ pc' = "tok_batch"
            /\ UNCHANGED error
    /\ UNCHANGED <<config, i, utt_norm, norm_utterances, mat, slot_dict,
                   result, spans, iters>>

\* for utt, utt_tags in zip(utterances, tags): next utterance, mat = np.zeros, i = 0
TokUtt ==
    /\ pc = "tok_batch"
    /\ u < ZipLen(utterances, tags)
    /\ mat' = Zeros(Len(slot_vocab), Len(tags[u + 1]))
    /\ i' = 0
    /\ spans' = Append(spans, <<>>)
    /\ iters' = 0
    /\ pc' = "tok_scan"
    /\ UNCHANGED <<config, cands, u, utt_norm, norm_utterances, utt_matrices,
                   slot_dict, result, error>>

\* the inner while: slot_len grows while the next tag is 'I-' + slot
RECURSIVE SlotLen(_, _, _, _)
RECURSIVE SlotLen_anySlot(_, _, _, _)
SlotLen_anySlot(utt_tags, at, slot, slot_len) ==
    IF (at + slot_len < Len(utt_tags)) /\ StartsWith(utt_tags[at + slot_len + 1], "I-")
    THEN SlotLen_anySlot(utt_tags, at, slot, slot_len + 1)
    ELSE slot_len

SlotLen(utt_tags, at, slot, slot_len) ==
    IF (at + slot_len < Len(utt_tags)) /\ (utt_tags[at + slot_len + 1] = "I-" \o slot)
    THEN SlotLen(utt_tags, at, slot, slot_len + 1)
    ELSE slot_len

\* the x for which `x in c` holds: the keys of a dict, the items of a list
Keys(c) == IF c.tag = "dict" THEN DOMAIN c.dict ELSE {c.items[k] : k \in 1..Len(c.items)}

\* candidates[slot] with a str slot: on None, on a list, on a dict without the key,
\* on a dict with it
Subscript(cs, slot) ==
    IF IsNone(cs) THEN Raise("TypeError: 'NoneType' object is not subscriptable")
    ELSE IF cs.tag = "list"
    THEN Raise("TypeError: list indices must be integers or slices, not str")
    ELSE IF slot \notin DOMAIN cs.dict THEN Raise("KeyError")
    ELSE Return(cs.dict[slot])

\* what the index branch writes for a resolved value: slot_value_idx + 1
SlotValueCell_noPlusOne(slot_value_idx) == slot_value_idx

SlotValueCell(slot_value_idx) == slot_value_idx + 1

\* the index branch up to slot_value_idx + 1: the two membership tests and list.index
SlotValueIdx(cs, slot, slot_value) ==
    IF slot \notin Keys(cs)
    THEN Raise("RuntimeError: slot is not in candidates")
    ELSE LET l == Subscript(cs, slot) IN
         IF l.raised THEN l
         ELSE IF ~InList(l.val, slot_value)
         THEN Raise("RuntimeError: value of slot is not in candidates")
         ELSE Return(SlotValueCell(ListIndex(l.val, slot_value)))

\* the columns the mask branch writes: mat[row, i] = 1
MaskEnd(at, slot_len) == at + 1

\* the body of `if slot is not None` up to the matrix write: the new matrix, or an exception
FillSpan(m, utt, at, slot, slot_len, cs) ==
    LET row == _slot2idx(slot) IN
    IF ~IsNone(cs)
    THEN LET v == SlotValueIdx(cs, slot, JoinSpace(Slice(utt, at, at + slot_len))) IN
         IF v.raised THEN v
         ELSE IF row.raised THEN row
         ELSE Return(SetCells(m, row.val, at, at + slot_len, v.val))
    ELSE IF row.raised THEN row
         ELSE Return(SetCells(m, row.val, at, MaskEnd(at, slot_len), 1))

\* i += slot_len
Advance_byOne(at, slot_len) == at + 1

Advance(at, slot_len) == at + slot_len

\* one iteration of while (i < len(utt_tags))
TokScan ==
    /\ pc = "tok_scan"
    /\ i < Len(tags[u + 1])
    /\ iters' = iters + 1
    /\ LET utt_tags == tags[u + 1]
           r == tag2slot(utt_tags[i + 1])
       IN
       IF r.raised
       THEN /\ error' = r.err
            /\ pc' = "error"
            /\ UNCHANGED <<i, mat, spans>>
       ELSE IF r.none
       THEN /\ i' = i + 1
            /\ UNCHANGED <<mat, spans, error, pc>>
       ELSE LET slot == r.val
                slot_len == SlotLen(utt_tags, i, slot, 1)
                m == FillSpan(mat, utterances[u + 1], i, slot, slot_len, cands)
            IN
            /\ spans' = [spans EXCEPT ![u + 1] =
                            Append(@, [slot |-> slot, start |-> i, length |-> slot_len])]
            /\ IF m.raised
               THEN /\ error' = m.err
                    /\ pc' = "error"
                    /\ UNCHANGED <<i, mat>>
               ELSE /\ mat' = m.val
                    /\ i' = Advance(i, slot_len)
                    /\ UNCHANGED <<error, pc>>
    /\ UNCHANGED <<config, cands, u, utt_norm, norm_utterances, utt_matrices,
                   slot_dict, result>>

\* utt_matrices.append(mat)
TokAppend ==
    /\ pc = "tok_scan"
    /\ i >= Len(tags[u + 1])
    /\ utt_matrices' = Append(utt_matrices, mat)
    /\ u' = u + 1
    /\ pc' = "tok_batch"
    /\ UNCHANGED <<config, cands, i, utt_norm, norm_utterances, mat, slot_dict,
                   result, error, spans, iters>>

TokReturn ==
    /\ pc = "tok_batch"
    /\ u >= ZipLen(utterances, tags)
    /\ result' = Returned(utt_matrices)
    /\ pc' = "done"
    /\ UNCHANGED <<config, cands, u, i, utt_norm, norm_utterances, mat,
                   utt_matrices, slot_dict, error, spans, iters>>

-----------------------------------------------------------------------------
(* SlotsValuesMatrixBuilder *)

\* s.get('score', 1.), scores in tenths
DefaultScore == 10

\* _format_slot_dict: the records of a dict, in the order of its items; a list as it is
_format_slot_dict(x) ==
    IF x.tag = "dict"
    THEN [k \in 1..Len(x.items) |-> [slot |-> x.items[k][1], value |-> x.items[k][2]]]
    ELSE x.items

_value2idx_raising(slot, value, cs) ==
    LET l == Subscript(cs, slot) IN
    IF l.raised THEN l
    ELSE IF ~InList(l.val, value) THEN Raise("RuntimeError: slot's value doesn't match")
    ELSE Return(ListIndex(l.val, value))

_value2idx_oneBased(slot, value, cs) ==
    LET l == Subscript(cs, slot) IN
    IF l.raised THEN l
    ELSE IF ~InList(l.val, value) THEN Return(0)
    ELSE Return(ListIndex(l.val, value) + 1)

_value2idx(slot, value, cs) ==
    LET l == Subscript(cs, slot) IN
    IF l.raised THEN l
    ELSE IF ~InList(l.val, value) THEN Return(0)
    ELSE Return(ListIndex(l.val, value))

ValCandidates(c) ==
    IF IsNone(c) THEN Raise("TypeError: object of type 'NoneType' has no len()")
    ELSE IF Len(c.items) # 1 THEN Raise("NotImplementedError")
    ELSE Return(c.items[1])

Score(s) == IF "score" \in DOMAIN s THEN s.score ELSE DefaultScore

\* mat[slot_idx, value_idx] = score, an IndexError beyond the last column
WriteCell(m, slot_idx, value_idx, score) ==
    IF value_idx >= Len(m[slot_idx + 1])
    THEN Raise("IndexError: index is out of bounds for axis 1")
    ELSE Return(SetCells(m, slot_idx, value_idx, value_idx + 1, score))

\* the body of `for s in utt_slots`
PutRecord(m, s, cs) ==
    LET slot_idx == _slot2idx(s.slot) IN
    IF slot_idx.raised THEN slot_idx
    ELSE LET value_idx == _value2idx(s.slot, s.value, cs) IN
         IF value_idx.raised THEN value_idx
         ELSE WriteCell(m, slot_idx.val, value_idx.val, Score(s))

ValCall ==
    /\ pc = "start" /\ op = "SlotsValuesMatrixBuilder"
    /\ LET r == ValCandidates(candidates) IN
       IF r.raised
       THEN /\ error' = r.err
            /\ pc' = "error"
            /\ UNCHANGED <<cands, utt_matrices, u>>
       ELSE /\ cands' = r.val
            /\ utt_matrices' = <<>>
            /\ u' = 0
            /\ pc' = "val_batch"
            /\ UNCHANGED error
    /\ UNCHANGED <<config, i, utt_norm, norm_utterances, mat, slot_dict,
                   result, spans, iters>>

\* for utt_slots in map(self._format_slot_dict, slots): mat = np.zeros
ValUtt ==
    /\ pc = "val_batch"
    /\ u < Len(slots)
    /\ mat' = Zeros(Len(slot_vocab), max_num_values + 2)
    /\ i' = 0
    /\ pc' = "val_records"
    /\ UNCHANGED <<config, cands, u, utt_norm, norm_utterances, utt_matrices,
                   slot_dict, result, error, spans, iters>>

\* for s in utt_slots: one record
ValRecord ==
    /\ pc = "val_records"
    /\ i < Len(_format_slot_dict(slots[u + 1]))
    /\ LET m == PutRecord(mat, _format_slot_dict(slots[u + 1])[i + 1], cands) IN
       IF m.raised
       THEN /\ error' = m.err
            /\ pc' = "error"
            /\ UNCHANGED <<mat, i>>
       ELSE /\ mat' = m.val
            /\ i' = i + 1
            /\ UNCHANGED <<error, pc>>
    /\ UNCHANGED <<config, cands, u, utt_norm, norm_utterances, utt_matrices,
                   slot_dict, result, spans, iters>>

ValAppend ==
    /\ pc = "val_records"
    /\ i >= Len(_format_slot_dict(slots[u + 1]))
    /\ utt_matrices' = Append(utt_matrices, mat)
    /\ u' = u + 1
    /\ pc' = "val_batch"
    /\ UNCHANGED <<config, cands, i, utt_norm, norm_utterances, mat, slot_dict,
                   result, error, spans, iters>>

ValReturn ==
    /\ pc = "val_batch"
    /\ u >= Len(slots)
    /\ result' = Returned(utt_matrices)
    /\ pc' = "done"
    /\ UNCHANGED <<config, cands, u, i, utt_norm, norm_utterances, mat,
                   utt_matrices, slot_dict, error, spans, iters>>

-----------------------------------------------------------------------------
(* SlotsValuesMatrix2Dict *)

\* idx if idx < len(candidates[slot]) else 0
ClampIdx_offByOne(idx, n) == IF idx <= n THEN idx ELSE 0

ClampIdx(idx, n) == IF idx < n THEN idx ELSE 0

\* candidates[slot][idx] after the clamp; indices are never negative here
_idx2value(slot, idx, cs) ==
    LET l == Subscript(cs, slot) IN
    IF l.raised THEN l
    ELSE LET k == ClampIdx(idx, Len(l.val)) IN
         IF k >= Len(l.val) THEN Raise("IndexError: list index out of range")
         ELSE Return(l.val[k + 1])

DecCandidates_onlyLonger(c) ==
    IF IsNone(c) THEN Raise("TypeError: object of type 'NoneType' has no len()")
    ELSE IF Len(c.items) > 1 THEN Raise("NotImplementedError")
    ELSE IF Len(c.items) = 0 THEN Raise("IndexError: list index out of range")
    ELSE Return(c.items[1])

DecCandidates(c) ==
    IF IsNone(c) THEN Raise("TypeError: object of type 'NoneType' has no len()")
    ELSE IF Len(c.items) # 1 THEN Raise("NotImplementedError")
    ELSE Return(c.items[1])

\* slot_dict[slot] = value
DictSet(d, k, v) == [x \in DOMAIN d \cup {k} |-> IF x = k THEN v ELSE d[x]]

\* if value not in self.exclude_values: slot_dict[slot] = value
PutValue(d, slot, value) ==
    IF ~InList(exclude_values, value) THEN DictSet(d, slot, value) ELSE d

\* the decoder is called on its own, or on the vector an encoder produced
DecEntry ==
    \/ pc = "start" /\ op = "SlotsValuesMatrix2Dict"
    \/ pc = "encoded" /\ op \in {"RoundTripTokens", "RoundTripValues"}

DecCall ==
    /\ DecEntry
    /\ LET r == DecCandidates(candidates) IN
       IF r.raised
       THEN /\ error' = r.err
            /\ pc' = "error"
            /\ UNCHANGED <<cands, slot_dict, i>>
       ELSE /\ cands' = r.val
            /\ slot_dict' = <<>>
            /\ i' = 0
            /\ pc' = "dec_rows"
            /\ UNCHANGED error
    /\ UNCHANGED <<config, u, utt_norm, norm_utterances, mat, utt_matrices,
                   result, spans, iters>>

\* for slot_idx, value_idx in enumerate(slots_values): one row
DecRow ==
    /\ pc = "dec_rows"
    /\ i < Len(slots_values)
    /\ LET slot == slot_vocab[i + 1]
           value == _idx2value(slot, slots_values[i + 1], cands)
       IN
       IF value.raised
       THEN /\ error' = value.err
            /\ pc' = "error"
            /\ UNCHANGED <<slot_dict, i>>
       ELSE /\ slot_dict' = PutValue(slot_dict, slot, value.val)
            /\ i' = i + 1
            /\ UNCHANGED <<error, pc>>
    /\ UNCHANGED <<config, cands, u, utt_norm, norm_utterances, mat,
                   utt_matrices, result, spans, iters>>

\* return [slot_dict]
DecReturn ==
    /\ pc = "dec_rows"
    /\ i >= Len(slots_values)
    /\ result' = Returned(<<slot_dict>>)
    /\ pc' = "done"
    /\ UNCHANGED <<config, cands, u, i, utt_norm, norm_utterances, mat,
                   utt_matrices, slot_dict, error, spans, iters>>

-----------------------------------------------------------------------------
(* Encoding a slot dict to a per-slot index vector, then decoding it *)

\* the dict a list of (key, value) items stands for
DictOf(x) == [k \in {x.items[j][1] : j \in 1..Len(x.items)} |->
                 x.items[CHOOSE j \in 1..Len(x.items) : x.items[j][1] = k][2]]

\* the index an encoder assigns to a slot's value: the cell SlotsTokensMatrixBuilder
\* writes for a span with that surface text, or the column SlotsValuesMatrixBuilder
\* writes for a record with that value
EncodeIndex(slot, value, cs) ==
    IF op = "RoundTripTokens" THEN SlotValueIdx(cs, slot, value)
    ELSE _value2idx(slot, value, cs)

\* one index per slot of the vocabulary; a slot without a value keeps the 0 of np.zeros
EncodeDict(d, cs) ==
    [k \in 1..Len(slot_vocab) |->
        IF slot_vocab[k] \in DOMAIN d
        THEN EncodeIndex(slot_vocab[k], d[slot_vocab[k]], cs)
        ELSE Return(0)]

RtEncode ==
    /\ pc = "start" /\ op \in {"RoundTripTokens", "RoundTripValues"}
    /\ LET enc == EncodeDict(DictOf(slots[1]), candidates.items[1]) IN
       IF \E k \in 1..Len(enc) : enc[k].raised
       THEN /\ error' = enc[CHOOSE k \in 1..Len(enc) :
                               enc[k].raised /\ \A j \in 1..(k - 1) : ~enc[j].raised].err
            /\ pc' = "error"
            /\ UNCHANGED slots_values
       ELSE /\ slots_values' = [k \in 1..Len(enc) |-> enc[k].val]
            /\ pc' = "encoded"
            /\ UNCHANGED error
    /\ UNCHANGED <<op, slot_vocab, max_num_values, exclude_values, utterances,
                   tags, candidates, slots, cands, u, i, utt_norm,
                   norm_utterances, mat, utt_matrices, slot_dict, result,
                   spans, iters>>

-----------------------------------------------------------------------------
(* Inputs *)

Words == {"Paris", "Texas"}

TagAlphabet == {"O", "B-city", "I-city", "I-food", "X-city"}

SlotVocabs == {<<"city", "food">>, <<"food">>}

CandA == [city |-> <<"Paris Texas", "Paris">>, food |-> <<"Texas", "Paris">>]
CandB == [city |-> <<"Paris", "Texas", "Paris">>]

\* the candidates arguments of a call: None, batches of length 0, 1 and 2, and the
\* default [[]] of SlotsTokensMatrixBuilder.__call__
DefaultCandidates == PyList(<<PyList(<<>>)>>)

CandidateArgs ==
    {PyNone, PyList(<<>>), PyList(<<PyNone>>), DefaultCandidates,
     PyList(<<PyDict(CandA)>>), PyList(<<PyDict(CandB)>>),
     PyList(<<PyDict(CandA), PyDict(CandB)>>)}

RECURSIVE Sum(_)
Sum(ns) == IF Len(ns) = 0 THEN 0 ELSE Head(ns) + Sum(Tail(ns))

\* the lengths of the utterances of a batch
BatchShapes ==
    {l \in UNION {[1..b -> 0..MaxTokens] : b \in BatchSizes} : Sum(l) <= MaxTokens}

\* xs cut into consecutive pieces of the lengths lens
RECURSIVE Cut(_, _)
Cut(xs, lens) ==
    IF Len(lens) = 0 THEN <<>>
    ELSE <<SubSeq(xs, 1, Head(lens))>>
         \o Cut(SubSeq(xs, Head(lens) + 1, Len(xs)), Tail(lens))

\* parallel token and tag batches: every utterance has one tag per token
InitTurn ==
    \E l \in BatchShapes :
        \E ws \in [1..Sum(l) -> Words], ts \in [1..Sum(l) -> TagAlphabet] :
            /\ utterances = Cut(ws, l)
            /\ tags = Cut(ts, l)

InitLocals ==
    /\ pc = "start"
    /\ cands = PyNone
    /\ u = 0
    /\ i = 0
    /\ utt_norm = <<>>
    /\ norm_utterances = <<>>
    /\ mat = <<>>
    /\ utt_matrices = <<>>
    /\ slot_dict = <<>>
    /\ result = NoResult
    /\ error = "none"
    /\ spans = <<>>
    /\ iters = 0

InitDelex ==
    /\ op = "Delexicalizor"
    /\ InitTurn
    /\ slot_vocab = <<>>
    /\ max_num_values = 0
    /\ exclude_values = <<>>
    /\ candidates = PyNone
    /\ slots = <<>>
    /\ slots_values = <<>>
    /\ InitLocals

InitTokens ==
    /\ op = "SlotsTokensMatrixBuilder"
    /\ InitTurn
    /\ slot_vocab \in SlotVocabs
    /\ candidates \in CandidateArgs
    /\ max_num_values = 0
    /\ exclude_values = <<>>
    /\ slots = <<>>
    /\ slots_values = <<>>
    /\ InitLocals

\* the largest max_num_values of a SlotsValuesMatrixBuilder
MaxNumValues == 1
\* records of a batch
MaxRecords == 2
\* the largest value index handed to the decoder
MaxIndex == 3

Values == {"Paris", "Rome"}

Scores == {5}

Records ==
    [slot : {"city", "food"}, value : Values]
        \cup [slot : {"city", "food"}, value : Values, score : Scores]

CandC == [city |-> <<"Texas", "Rome", "Paris">>, food |-> <<>>]

ValCandidateArgs ==
    {PyNone, PyList(<<>>), PyList(<<PyNone>>), DefaultCandidates,
     PyList(<<PyDict(CandA)>>), PyList(<<PyDict(CandB)>>), PyList(<<PyDict(CandC)>>),
     PyList(<<PyDict(CandA), PyDict(CandB)>>)}

ExcludeSets == {<<>>, <<"Paris">>, <<"Texas", "Rome">>}

RecordShapes ==
    {l \in UNION {[1..b -> 0..MaxRecords] : b \in BatchSizes} : Sum(l) <= MaxRecords}

\* a dict holds each key once and carries no scores
DictForm(rs) ==
    /\ \A a, b \in 1..Len(rs) : a # b => rs[a].slot # rs[b].slot
    /\ \A a \in 1..Len(rs) : "score" \notin DOMAIN rs[a]

AsDict(rs) == [tag |-> "dict", items |-> [k \in 1..Len(rs) |-> <<rs[k].slot, rs[k].value>>]]

InitValues ==
    /\ op = "SlotsValuesMatrixBuilder"
    /\ \E l \in RecordShapes :
         \E rs \in [1..Sum(l) -> Records], f \in [1..Len(l) -> {"list", "dict"}] :
            /\ \A k \in 1..Len(l) : f[k] = "dict" => DictForm(Cut(rs, l)[k])
            /\ slots = [k \in 1..Len(l) |->
                          IF f[k] = "dict" THEN AsDict(Cut(rs, l)[k])
                          ELSE PyList(Cut(rs, l)[k])]
    /\ slot_vocab \in SlotVocabs
    /\ max_num_values \in 0..MaxNumValues
    /\ candidates \in ValCandidateArgs
    /\ exclude_values = <<>>
    /\ utterances = <<>>
    /\ tags = <<>>
    /\ slots_values = <<>>
    /\ InitLocals

InitDecode ==
    /\ op = "SlotsValuesMatrix2Dict"
    /\ slot_vocab \in SlotVocabs
    /\ slots_values \in UNION {[1..n -> 0..MaxIndex] : n \in 0..Len(slot_vocab)}
    /\ candidates \in ValCandidateArgs
    /\ exclude_values \in ExcludeSets
    /\ max_num_values = 0
    /\ utterances = <<>>
    /\ tags = <<>>
    /\ slots = <<>>
    /\ InitLocals

\* the items of a dict over slots of the vocabulary, in vocabulary order
ItemsOf(d) ==
    LET ks == SelectSeq(slot_vocab, LAMBDA s : s \in DOMAIN d) IN
    [k \in 1..Len(ks) |-> <<ks[k], d[ks[k]]>>]

InitRoundTrip ==
    /\ op \in {"RoundTripTokens", "RoundTripValues"}
    /\ slot_vocab \in SlotVocabs
    /\ \E S \in SUBSET {slot_vocab[k] : k \in 1..Len(slot_vocab)} :
         \E d \in [S -> Values] :
            slots = <<[tag |-> "dict", items |-> ItemsOf(d)]>>
    /\ candidates \in {PyList(<<PyDict(c)>>) : c \in {CandA, CandB, CandC}}
    /\ exclude_values \in ExcludeSets
    /\ max_num_values = 0
    /\ utterances = <<>>
    /\ tags = <<>>
    /\ slots_values = <<>>
    /\ InitLocals

NextDelex == DelexCall \/ DelexUtt \/ DelexToken \/ DelexAppend \/ DelexReturn

NextTokens == TokCall \/ TokUtt \/ TokScan \/ TokAppend \/ TokReturn

SpecDelex == InitDelex /\ [][NextDelex]_vars

SpecTokens == InitTokens /\ [][NextTokens]_vars

NextValues == ValCall \/ ValUtt \/ ValRecord \/ ValAppend \/ ValReturn

NextDecode == DecCall \/ DecRow \/ DecReturn

NextRoundTrip == RtEncode \/ NextDecode

SpecValues == InitValues /\ [][NextValues]_vars

SpecDecode == InitDecode /\ [][NextDecode]_vars

SpecRoundTrip == InitRoundTrip /\ [][NextRoundTrip]_vars

Init == InitDelex \/ InitTokens \/ InitValues \/ InitDecode

Next == NextDelex \/ NextTokens \/ NextValues \/ NextDecode

Spec == Init /\ [][Next]_vars

-----------------------------------------------------------------------------
(* Properties of the span scan of SlotsTokensMatrixBuilder *)

TokensOp == op = "SlotsTokensMatrixBuilder"

\* the utterances whose scan has begun
Scanned == 1..Len(spans)

SpanEnd(sp) == sp.start + sp.length

RECURSIVE SumLengths(_)
SumLengths(sps) == IF Len(sps) = 0 THEN 0 ELSE Head(sps).length + SumLengths(Tail(sps))

SpansOrdered(sps, n) ==
    /\ \A j \in 1..Len(sps) :
          /\ sps[j].length >= 1
          /\ sps[j].start >= 0
          /\ SpanEnd(sps[j]) <= n
    /\ \A j \in 1..(Len(sps) - 1) :
          /\ sps[j].start < sps[j + 1].start
          /\ SpanEnd(sps[j]) <= sps[j + 1].start
    /\ SumLengths(sps) <= n

\* C2: the spans the left-to-right scan finds in an utterance each have length >= 1
\* and lie inside [0, len(tags)), come in strictly increasing start order, never
\* overlap (each starts at or after the end of the one before), and their lengths
\* sum to at most len(tags).
C2_SpansOrdered ==
    TokensOp => \A k \in Scanned : SpansOrdered(spans[k], Len(tags[k]))

\* a finished call whose first utterance holds two spans, the first of two tokens
C2_Witness ==
    /\ TokensOp /\ pc = "done"
    /\ Len(spans) >= 1
    /\ Len(spans[1]) = 2
    /\ spans[1][1].length = 2
    /\ spans[1][2].start = 2

\* the span sp of the tag sequence ts is a maximal run: it starts on a non-O tag that
\* names its slot, continues over tags that are literally 'I-' + slot, and the tag
\* after it is out of range or is not 'I-' + slot
SpanClosed(sp, ts) ==
    /\ ts[sp.start + 1] # "O"
    /\ SubSeq(ts[sp.start + 1], 3, Len(ts[sp.start + 1])) = sp.slot
    /\ \A c \in (sp.start + 1)..(SpanEnd(sp) - 1) : ts[c + 1] = "I-" \o sp.slot
    /\ SpanEnd(sp) = Len(ts) \/ ts[SpanEnd(sp) + 1] # "I-" \o sp.slot

Covered(sps, c) == \E j \in 1..Len(sps) : sps[j].start <= c /\ c < SpanEnd(sps[j])

\* C10: the scan is one pass.  While an utterance is scanned the cursor i is the
\* number of O iterations plus the lengths of the spans found (so every iteration
\* moved it: by 1 on O, by the span length >= 1 otherwise), it never exceeds
\* len(tags), there are at most len(tags) iterations, the scan is never stuck, and
\* it is left with i == len(tags) or with an error; every span is closed exactly
\* where the next tag is out of range or is not 'I-' + slot, and every non-O tag
\* the cursor passed, B- or I-, lies in a span.
C10_OnePass ==
    TokensOp =>
      /\ \A k \in Scanned : \A j \in 1..Len(spans[k]) :
            SpanEnd(spans[k][j]) <= Len(tags[k]) /\ SpanClosed(spans[k][j], tags[k])
      /\ pc = "tok_scan" =>
            /\ i <= Len(tags[u + 1])
            /\ iters <= i
            /\ i = (iters - Len(spans[u + 1])) + SumLengths(spans[u + 1])
            /\ \A j \in 1..Len(spans[u + 1]) : spans[u + 1][j].length >= 1
            /\ \A c \in 0..(i - 1) :
                  tags[u + 1][c + 1] # "O" => Covered(spans[u + 1], c)
            /\ ENABLED (TokScan \/ TokAppend)
      /\ (pc = "error" /\ Len(spans) > 0) => iters <= Len(tags[u + 1])
      /\ (pc \in {"tok_batch", "done"} /\ u > 0) => i = Len(tags[u])

\* a finished scan that found a span of two tokens opened by an I- tag
C10_Witness ==
    /\ TokensOp /\ pc = "done"
    /\ \E k \in Scanned : \E j \in 1..Len(spans[k]) :
          /\ spans[k][j].length = 2
          /\ StartsWith(tags[k][spans[k][j].start + 1], "I-")
          /\ SpanEnd(spans[k][j]) < Len(tags[k])

\* The loop of __call__ runs whenever it can (the call is sequential code), so
\* under weak fairness of its steps every call returns or raises.
SpecTokensFair == SpecTokens /\ WF_vars(NextTokens)

TokensTerminates == <>(pc \in {"done", "error"})

-----------------------------------------------------------------------------
(* Properties of the matrices of SlotsTokensMatrixBuilder *)

\* the surface text of a span: its tokens joined by single spaces
SurfaceText(utt, sp) == JoinSpace(SubSeq(utt, sp.start + 1, SpanEnd(sp)))

\* the spans of utterance k in the row r (0-based) of the slot vocabulary
RowSpans(k, r) == {j \in 1..Len(spans[k]) : spans[k][j].slot = slot_vocab[r + 1]}

\* v is candidateIndex + 1 for the first position of text in the list xs
IsIndexPlusOne(v, xs, text) ==
    \E idx \in 0..(Len(xs) - 1) :
        /\ xs[idx + 1] = text
        /\ \A b \in 0..(idx - 1) : xs[b + 1] # text
        /\ v = idx + 1

HasShape(m, rows, cols) ==
    /\ Len(m) = rows
    /\ \A r \in 1..rows : Len(m[r]) = cols

\* C3: with a candidate set supplied, the matrix returned for an utterance has
\* shape [numSlots, numTokens]; for every span (slot, start, length) the slot's row
\* holds candidateIndex + 1 of the span's space-joined surface text at every column
\* start..start+length-1, and every other cell is 0 (so a non-zero cell is >= 1).
C3_IndexMatrix ==
    (TokensOp /\ pc = "done" /\ ~IsNone(cands)) =>
      /\ Len(result.val) = Len(tags)
      /\ \A k \in 1..Len(tags) :
            /\ HasShape(result.val[k], Len(slot_vocab), Len(tags[k]))
            /\ \A r \in 0..(Len(slot_vocab) - 1) : \A c \in 0..(Len(tags[k]) - 1) :
                  LET cell == result.val[k][r + 1][c + 1]
                      on == {j \in RowSpans(k, r) :
                                spans[k][j].start <= c /\ c < SpanEnd(spans[k][j])}
                  IN
                  IF on = {} THEN cell = 0
                  ELSE \A j \in on :
                          IsIndexPlusOne(cell, cands.dict[spans[k][j].slot],
                                         SurfaceText(utterances[k], spans[k][j]))

\* the call returned a row with a two-token span of candidate 0 next to a span of
\* candidate 1
C3_Witness ==
    /\ TokensOp /\ pc = "done" /\ ~IsNone(cands)
    /\ \E k \in 1..Len(result.val) : \E r \in 1..Len(result.val[k]) :
          result.val[k][r] = <<1, 1, 2>>

WellFormed(t) == t = "O" \/ StartsWith(t, "B-") \/ StartsWith(t, "I-")

AllWellFormed == \A k \in 1..Len(tags) : \A c \in 1..Len(tags[k]) : WellFormed(tags[k][c])

\* every non-O tag names a slot of the vocabulary
AllSlotsKnown ==
    \A k \in 1..Len(tags) : \A c \in 1..Len(tags[k]) :
        tags[k][c] # "O" => InList(slot_vocab, SubSeq(tags[k][c], 3, Len(tags[k][c])))

\* the returned matrices are presence masks: 1 at the first column of every span, in
\* the row of its slot, and 0 everywhere else
PresenceMask ==
    /\ Len(result.val) = Len(tags)
    /\ \A k \in 1..Len(tags) :
          /\ HasShape(result.val[k], Len(slot_vocab), Len(tags[k]))
          /\ \A r \in 0..(Len(slot_vocab) - 1) : \A c \in 0..(Len(tags[k]) - 1) :
                result.val[k][r + 1][c + 1] =
                    IF \E j \in RowSpans(k, r) : spans[k][j].start = c THEN 1 ELSE 0

\* C4: when None is passed for candidates, a call on well-formed tags over slots of
\* the vocabulary succeeds and returns a presence mask.
C4_NoneGivesPresenceMask ==
    (TokensOp /\ IsNone(candidates) /\ AllWellFormed /\ AllSlotsKnown /\ pc # "start") =>
      /\ error = "none"
      /\ pc = "done" => PresenceMask

\* C4, omitting the argument: the default [[]] is no request for a mask either
C4_DefaultGivesPresenceMask ==
    (TokensOp /\ candidates = DefaultCandidates /\ AllWellFormed /\ AllSlotsKnown
        /\ pc # "start") =>
      /\ error = "none"
      /\ pc = "done" => PresenceMask

\* what the code does offer: the mask is returned when the batch [None] is passed
WrappedNoneGivesPresenceMask ==
    (TokensOp /\ candidates = PyList(<<PyNone>>) /\ AllWellFormed /\ AllSlotsKnown) =>
      /\ error = "none"
      /\ pc = "done" => PresenceMask

WrappedNoneWitness ==
    /\ TokensOp /\ candidates = PyList(<<PyNone>>) /\ pc = "done"
    /\ \E k \in 1..Len(result.val) : \E r \in 1..Len(result.val[k]) :
          result.val[k][r] = <<1, 0, 1>>

-----------------------------------------------------------------------------
(* Malformed tags *)

Malformed(t) == t # "O" /\ ~StartsWith(t, "B-") /\ ~StartsWith(t, "I-")

HasMalformed == \E k \in 1..Len(tags) : \E c \in 1..Len(tags[k]) : Malformed(tags[k][c])

TagOps == op \in {"Delexicalizor", "SlotsTokensMatrixBuilder"}

\* C7: a call to Delexicalizor or SlotsTokensMatrixBuilder whose tag sequences hold a
\* malformed tag (not O, no B- or I- prefix) never returns a result and can only stop
\* in an error; the loops never step past a malformed tag (it is not skipped as O),
\* and no span contains one (it opens no span and is not absorbed into the span
\* before it).
C7_MalformedTagRaises ==
    (TagOps /\ HasMalformed) =>
      /\ pc # "done"
      /\ result = NoResult
      /\ (~ENABLED Next) => pc = "error"
      /\ \A k \in 1..u : \A c \in 1..Len(tags[k]) : ~Malformed(tags[k][c])
      /\ pc \in {"delex_tokens", "tok_scan"} =>
            \A c \in 0..(i - 1) : ~Malformed(tags[u + 1][c + 1])
      /\ \A k \in Scanned : \A j \in 1..Len(spans[k]) :
            \A c \in spans[k][j].start..(SpanEnd(spans[k][j]) - 1) :
                c < Len(tags[k]) => ~Malformed(tags[k][c + 1])

\* the scan raised on X-city right after a span of the slot city
C7_Witness ==
    /\ TokensOp /\ pc = "error" /\ error = "RuntimeError: Wrong tag format"
    /\ Len(spans) = u + 1
    /\ Len(spans[u + 1]) >= 1
    /\ LET last == spans[u + 1][Len(spans[u + 1])] IN
          /\ last.slot = "city"
          /\ SpanEnd(last) = i
          /\ tags[u + 1][i + 1] = "X-city"

-----------------------------------------------------------------------------
(* Delexicalizor *)

\* C9: Delexicalizor returns one utterance per input utterance, each as long as its
\* input; output token i is '#' + the tag without its 2-character prefix when tag i
\* is not O, and the input token i when tag i is O; the partial utterance built in
\* the loop obeys the same rule.
C9_Delexicalized ==
    op = "Delexicalizor" =>
      /\ pc = "done" =>
            /\ Len(result.val) = Len(utterances)
            /\ \A k \in 1..Len(utterances) :
                  /\ Len(result.val[k]) = Len(utterances[k])
                  /\ \A c \in 1..Len(utterances[k]) :
                        result.val[k][c] =
                            IF tags[k][c] = "O" THEN utterances[k][c]
                            ELSE "#" \o SubSeq(tags[k][c], 3, Len(tags[k][c]))
      /\ pc = "delex_tokens" =>
            /\ Len(utt_norm) = i
            /\ \A c \in 1..i :
                  utt_norm[c] = IF tags[u + 1][c] = "O" THEN utterances[u + 1][c]
                                ELSE "#" \o SubSeq(tags[u + 1][c], 3, Len(tags[u + 1][c]))

\* the call returned two utterances, one of them with a replaced and a kept token
C9_Witness ==
    /\ op = "Delexicalizor" /\ pc = "done"
    /\ Len(result.val) = 2
    /\ \E k \in 1..2 : Len(result.val[k]) = 2 /\ result.val[k][1] = "#city"
                       /\ result.val[k][2] = "Texas"

\* No step of Delexicalizor assigns to its arguments: the utterances and the tags
\* the caller passed are the same lists, with the same contents, at every step.
DelexInputsUnchanged == [][utterances' = utterances /\ tags' = tags]_vars

-----------------------------------------------------------------------------
(* The length-1 candidates batch *)

BatchOps ==
    op \in {"SlotsTokensMatrixBuilder", "SlotsValuesMatrixBuilder", "SlotsValuesMatrix2Dict"}

\* C6: a call of SlotsTokensMatrixBuilder, SlotsValuesMatrixBuilder or
\* SlotsValuesMatrix2Dict whose candidates batch has a length other than 1 ends in
\* the NotImplementedError before any utterance, record or row is processed, and
\* returns nothing.
C6_BatchLengthChecked ==
    (BatchOps /\ ~IsNone(candidates) /\ Len(candidates.items) # 1 /\ pc # "start") =>
      /\ pc = "error"
      /\ error = "NotImplementedError"
      /\ result = NoResult
      /\ u = 0 /\ i = 0 /\ iters = 0
      /\ mat = <<>> /\ utt_matrices = <<>> /\ slot_dict = <<>> /\ spans = <<>>
      /\ IsNone(cands)

\* the decoder refused an empty batch
C6_Witness ==
    /\ op = "SlotsValuesMatrix2Dict"
    /\ ~IsNone(candidates) /\ Len(candidates.items) = 0
    /\ Len(slots_values) > 0
    /\ pc = "error"

-----------------------------------------------------------------------------
(* SlotsValuesMatrix2Dict *)

DecodeOp == op = "SlotsValuesMatrix2Dict"

\* the decoder holds a candidate set (a dict, or the list of the default [[]]) and is
\* at, or stopped at, row i
Decoding == DecodeOp /\ ~IsNone(cands) /\ pc \in {"dec_rows", "done", "error"}

\* the value the claim assigns to index idx of the candidate list xs
ClaimedValue(xs, idx) == IF idx >= Len(xs) THEN xs[1] ELSE xs[idx + 1]

\* the rows decoded so far obey the claim: candidate 0 for an out-of-range index,
\* candidate k for an in-range k, and the slot is in the result iff that value is not
\* excluded
RowsDecoded ==
    \A r \in 0..(i - 1) :
        LET slot == slot_vocab[r + 1]
            v == ClaimedValue(cands.dict[slot], slots_values[r + 1])
        IN
        /\ slot \in DOMAIN slot_dict <=> ~InList(exclude_values, v)
        /\ slot \in DOMAIN slot_dict => slot_dict[slot] = v

\* C5 as stated: the decoder never raises on a row whose slot has a candidate list,
\* whatever the index, and decodes every row as RowsDecoded says.
C5_NeverRaises ==
    Decoding =>
      /\ pc = "error" => slot_vocab[i + 1] \notin Keys(cands)
      /\ RowsDecoded
      /\ pc = "done" => result.val = <<slot_dict>> /\ i = Len(slots_values)

\* C5, amended: the decoder never raises on a row whose slot has a non-empty
\* candidate list in the candidate dict: an index >= len(candidates[slot]) selects candidate 0, an in-range
\* index k selects candidates[slot][k], and the slot is put in the result iff the
\* selected value is not in excludeValues.  The rows are decoded in order and the
\* call stops in an error only at a row whose slot has no candidate list or an
\* empty one, or when the candidate set is not a dict.
C5_ClampsWhenNonEmpty ==
    Decoding =>
      /\ pc = "error" =>
            \/ cands.tag # "dict"
            \/ slot_vocab[i + 1] \notin DOMAIN cands.dict
            \/ Len(cands.dict[slot_vocab[i + 1]]) = 0
      /\ RowsDecoded
      /\ pc = "done" => result.val = <<slot_dict>> /\ i = Len(slots_values)

\* a returned dict with a slot whose index was beyond its candidate list and another
\* whose selected value was excluded
C5_Witness ==
    /\ DecodeOp /\ pc = "done"
    /\ Len(slots_values) = 2
    /\ slots_values[1] >= Len(cands.dict[slot_vocab[1]])
    /\ slot_vocab[1] \in DOMAIN slot_dict
    /\ slot_dict[slot_vocab[1]] = cands.dict[slot_vocab[1]][1]
    /\ slots_values[2] = 1
    /\ slot_vocab[2] \notin DOMAIN slot_dict

-----------------------------------------------------------------------------
(* SlotsValuesMatrixBuilder *)

ValuesOp == op = "SlotsValuesMatrixBuilder"

\* the builder holds a candidate set (a dict, or the list of the default [[]]) and is
\* at, or stopped at, record i of utterance u
Building == ValuesOp /\ ~IsNone(cands) /\ pc \in {"val_records", "error"}

RecordsOf(k) == _format_slot_dict(slots[k])

\* the column the claim assigns to a record: the position of its value in the slot's
\* candidate list, 0 when the value is absent
ClaimedColumn(s) ==
    LET xs == cands.dict[s.slot] IN
    IF \E p \in 1..Len(xs) : xs[p] = s.value
    THEN (CHOOSE p \in 1..Len(xs) : xs[p] = s.value /\ \A q \in 1..(p - 1) : xs[q] # s.value) - 1
    ELSE 0

ClaimedScore(s) == IF "score" \in DOMAIN s THEN s.score ELSE 10

\* the matrix m holds, in every cell, the score of the last of the first n records rs
\* written to it, and 0 where none was written
MatrixOfRecords(m, rs, n) ==
    /\ HasShape(m, Len(slot_vocab), max_num_values + 2)
    /\ \A r \in 0..(Len(slot_vocab) - 1) : \A c \in 0..(max_num_values + 1) :
          LET hits == {j \in 1..n : rs[j].slot = slot_vocab[r + 1] /\ ClaimedColumn(rs[j]) = c}
          IN
          m[r + 1][c + 1] =
              IF hits = {} THEN 0
              ELSE ClaimedScore(rs[CHOOSE j \in hits : \A h \in hits : h <= j])

\* C8 as stated: resolving a record whose slot is in the slot vocabulary never
\* raises, and the matrix holds the records' scores as MatrixOfRecords says.
C8_NeverRaises ==
    Building =>
      /\ pc = "error" => ~InList(slot_vocab, RecordsOf(u + 1)[i + 1].slot)
      /\ pc = "val_records" => MatrixOfRecords(mat, RecordsOf(u + 1), i)

\* C8, amended: a record whose slot is in the slot vocabulary and has a candidate
\* list, and whose column is below maxNumValues + 2, never raises: an absent value
\* goes to column 0 of the slot's row, a present one to the column of its position in
\* the candidate list, the cell receives the record's score (1.0 without one), and a
\* later record for the same cell overwrites the earlier one.  The call stops in an
\* error only at a record whose slot is not in the vocabulary or has no candidate
\* list (the candidate set is not a dict, or lacks the slot), or whose column is not
\* below maxNumValues + 2.
C8_SoftFallback ==
    Building =>
      /\ pc = "error" =>
            LET s == RecordsOf(u + 1)[i + 1] IN
            \/ ~InList(slot_vocab, s.slot)
            \/ cands.tag # "dict"
            \/ s.slot \notin DOMAIN cands.dict
            \/ ClaimedColumn(s) >= max_num_values + 2
      /\ pc = "val_records" => MatrixOfRecords(mat, RecordsOf(u + 1), i)
      /\ \A k \in 1..Len(utt_matrices) :
            MatrixOfRecords(utt_matrices[k], RecordsOf(k), Len(RecordsOf(k)))

\* two records of one slot, both with absent values, the second with its own score:
\* column 0 holds the second score
C8_Witness ==
    /\ ValuesOp /\ pc = "val_records" /\ i = 2 /\ ~IsNone(cands)
    /\ LET rs == RecordsOf(u + 1) IN
          /\ rs[1].slot = rs[2].slot
          /\ rs[1].value # rs[2].value
          /\ "score" \notin DOMAIN rs[1]
          /\ "score" \in DOMAIN rs[2]
          /\ ~InList(cands.dict[rs[1].slot], rs[1].value)
          /\ ~InList(cands.dict[rs[2].slot], rs[2].value)
          /\ mat[ListIndex(slot_vocab, rs[1].slot) + 1][1] = rs[2].score

-----------------------------------------------------------------------------
(* Encoding then decoding *)

RoundTripOp == op \in {"RoundTripTokens", "RoundTripValues"}

\* the slot dict that is encoded, and the candidate set of the call
InputDict == DictOf(slots[1])
CandidateSet == candidates.items[1].dict

SameDict(a, b) == DOMAIN a = DOMAIN b /\ \A k \in DOMAIN a : a[k] = b[k]

\* every value of the dict is among its slot's candidates and is not excluded
ValuesAreCandidates ==
    \A s \in DOMAIN InputDict :
        /\ s \in DOMAIN CandidateSet
        /\ InList(CandidateSet[s], InputDict[s])
        /\ ~InList(exclude_values, InputDict[s])

\* every slot of the vocabulary without a value in the dict has a first candidate,
\* and it is excluded
AbsentSlotsExcluded ==
    \A k \in 1..Len(slot_vocab) :
        slot_vocab[k] \notin DOMAIN InputDict =>
            /\ slot_vocab[k] \in DOMAIN CandidateSet
            /\ Len(CandidateSet[slot_vocab[k]]) >= 1
            /\ InList(exclude_values, CandidateSet[slot_vocab[k]][1])

\* the candidate set lists at least one candidate for every slot of the vocabulary
CandidatesCoverVocabulary ==
    \A k \in 1..Len(slot_vocab) :
        /\ slot_vocab[k] \in DOMAIN CandidateSet
        /\ Len(CandidateSet[slot_vocab[k]]) >= 1

\* C1 as stated: with either encoder's index assignment, a dict whose values are all
\* candidates of their slots and not excluded is decoded back to itself (under a
\* candidate set that covers the vocabulary).
C1_RoundTrip ==
    (RoundTripOp /\ ValuesAreCandidates /\ CandidatesCoverVocabulary) =>
      /\ pc # "error"
      /\ pc = "done" => SameDict(result.val[1], InputDict)

\* C1 for the index SlotsTokensMatrixBuilder writes alone, on dicts that give every
\* slot of the vocabulary a value: fails too, the index is candidateIndex + 1
C1_RoundTripTokensTotal ==
    (op = "RoundTripTokens" /\ ValuesAreCandidates
        /\ \A k \in 1..Len(slot_vocab) : slot_vocab[k] \in DOMAIN InputDict) =>
      /\ pc # "error"
      /\ pc = "done" => SameDict(result.val[1], InputDict)

\* C1, amended: a dict over slots of the vocabulary whose values are all candidates
\* of their slots and not excluded, encoded slot by slot to the column
\* SlotsValuesMatrixBuilder writes for the value (0 for a slot without a value) and
\* decoded by SlotsValuesMatrix2Dict under the same candidate set, comes back as
\* the same dict, provided every slot of the vocabulary without a value has a first
\* candidate that is in excludeValues; the run cannot stop anywhere but at the
\* decoder's return.
C1_RoundTripValues ==
    (op = "RoundTripValues" /\ ValuesAreCandidates /\ AbsentSlotsExcluded) =>
      /\ pc # "error"
      /\ pc = "done" => (Len(result.val) = 1 /\ SameDict(result.val[1], InputDict))
      /\ (~ENABLED NextRoundTrip) => pc = "done"

\* a dict with one value at candidate position 1 and one slot without a value came
\* back unchanged
C1_Witness ==
    /\ op = "RoundTripValues" /\ pc = "done"
    /\ ValuesAreCandidates /\ AbsentSlotsExcluded
    /\ Len(slot_vocab) = 2
    /\ Cardinality(DOMAIN InputDict) = 1
    /\ \E s \in DOMAIN InputDict : slots_values[ListIndex(slot_vocab, s) + 1] = 1
    /\ SameDict(result.val[1], InputDict)

=============================================================================
